---------------------------- MODULE Spec2Model ----------------------------
(***************************************************************************)
(* Model of the Gemini service of ShopSmarter-AI (src/unnamed/part_000):    *)
(* sanitizeAndParseJson and analyzeImageAndSuggestProducts.                 *)
(*                                                                         *)
(* A JavaScript string is a sequence of one-character strings.  Positions   *)
(* are 1-based here (the code's index i is position i+1); endIndex keeps    *)
(* the code's own value (an exclusive 0-based end, i.e. a length).          *)
(***************************************************************************)
EXTENDS Integers, Sequences, FiniteSets, TLC

----------------------------------------------------------------------------
(* Characters and character classes of the regular expressions.            *)

\* the backtick (U+0060); the TLA+ lexer does not take it inside a string
\* literal, so the character is named
BT == "backtick"
QUOTE == "\""
BACKSLASH == "\\"
NL == "\n"
CR == "\r"
TAB == "\t"
SP == " "

Lower == {"a","b","c","d","e","f","g","h","i","j","k","l","m",
          "n","o","p","q","r","s","t","u","v","w","x","y","z"}
Upper == {"A","B","C","D","E","F","G","H","I","J","K","L","M",
          "N","O","P","Q","R","S","T","U","V","W","X","Y","Z"}
Alpha == Lower \cup Upper
Digit == {"0","1","2","3","4","5","6","7","8","9"}
AlphaNum == Alpha \cup Digit
\* \w
WordChar == AlphaNum \cup {"_"}
\* \s and the characters String.prototype.trim removes (the ASCII ones)
WhiteSpace == {SP, TAB, NL, CR}
\* where ^ and $ match under the m flag
LineTerminator == {NL, CR}
\* [a-zA-Z_] and [a-zA-Z0-9_] of regex 1
IdentStart == Alpha \cup {"_"}
IdentChar == AlphaNum \cup {"_"}
\* [a-zA-Z0-9\s_.-] of regex 2
JunkChar == AlphaNum \cup WhiteSpace \cup {"_", ".", "-"}
\* [\{\}\[\],"] and [\{\}\[\],] of the line filter
StructStart == {"{", "}", "[", "]", ",", QUOTE}
StructEnd == {"{", "}", "[", "]", ","}

Fence == <<BT, BT, BT>>

----------------------------------------------------------------------------
(* String helpers.                                                         *)

\* first position j >= i whose character is not in Class (Len(s)+1 if none):
\* where a greedy Class* that starts at i stops
SpanEnd(s, i, Class) ==
  CHOOSE j \in i..(Len(s) + 1) :
    /\ \A k \in i..(j - 1) : s[k] \in Class
    /\ (j = Len(s) + 1 \/ s[j] \notin Class)

\* s.substring(a-1, b-1): positions a .. b-1
Sub(s, a, b) == SubSeq(s, a, b - 1)

StartsWithAt(s, i, pat) ==
  /\ i + Len(pat) - 1 <= Len(s)
  /\ \A k \in 1..Len(pat) : s[i + k - 1] = pat[k]

Includes(s, pat) == \E i \in 1..Len(s) : StartsWithAt(s, i, pat)

\* String.prototype.trimStart / trimEnd / trim
trimStart(s) == Sub(s, SpanEnd(s, 1, WhiteSpace), Len(s) + 1)

trimEnd(s) ==
  LET keep == {j \in 1..Len(s) : s[j] \notin WhiteSpace}
  IN IF keep = {} THEN <<>>
     ELSE SubSeq(s, 1, CHOOSE j \in keep : \A k \in keep : k <= j)

trim(s) == trimEnd(trimStart(s))

\* ^ and $ under the m flag
AtLineStart(s, i) == i = 1 \/ s[i - 1] \in LineTerminator
AtLineEnd(s, i) == i = Len(s) + 1 \/ s[i] \in LineTerminator

\* largest element of a non-empty set of positions
MaxOf(S) == CHOOSE j \in S : \A k \in S : k <= j

----------------------------------------------------------------------------
(* sanitizeAndParseJson, lines 15-51: the sanitizing steps.                 *)

\* /^```(\w*)?\s*\n?(.*?)\n?\s*```$/s  (line 16; no m flag: ^ and $ are the
\* ends of the string).  The string must open and close with two separate
\* fences.  The greedy \w* and \s* take the whole run of word characters and
\* then of white space after the opening fence (the closing fence stops
\* them, and the first try of the matcher succeeds from there); the lazy
\* group 2 then ends at the first place from which only white space is left
\* before the closing fence.
fenceMatches(s) ==
  /\ Len(s) >= 2 * Len(Fence)
  /\ StartsWithAt(s, 1, Fence)
  /\ StartsWithAt(s, Len(s) - Len(Fence) + 1, Fence)

fenceGroup2(s) ==
  LET afterTag == SpanEnd(s, Len(Fence) + 1, WordChar)
      from == SpanEnd(s, afterTag, WhiteSpace)
  IN trimEnd(Sub(s, from, Len(s) - Len(Fence) + 1))

\* lines 15-20
unwrapFence(jsonString) ==
  LET t == trim(jsonString)
  IN IF fenceMatches(t) /\ fenceGroup2(t) # <<>>
     THEN trim(fenceGroup2(t))
     ELSE t

\* /^\s*([a-zA-Z_][a-zA-Z0-9_]*):\s*(\[\]|\{\})\s*,?\s*$/gm  (line 23):
\* the position after a match that starts at i, or 0 when none starts there.
\* The trailing \s*,?\s*$ gives white space back until $ holds.
regex1End(s, i) ==
  IF ~(i <= Len(s) /\ AtLineStart(s, i)) THEN 0
  ELSE
    LET p1 == SpanEnd(s, i, WhiteSpace)
    IN IF ~(p1 <= Len(s) /\ s[p1] \in IdentStart) THEN 0
       ELSE
         LET p2 == SpanEnd(s, p1 + 1, IdentChar)
         IN IF ~(p2 <= Len(s) /\ s[p2] = ":") THEN 0
            ELSE
              LET p3 == SpanEnd(s, p2 + 1, WhiteSpace)
              IN IF ~(StartsWithAt(s, p3, <<"[", "]">>)
                        \/ StartsWithAt(s, p3, <<"{", "}">>)) THEN 0
                 ELSE
                   LET p4 == p3 + 2
                       q == SpanEnd(s, p4, WhiteSpace)
                       hasComma == q <= Len(s) /\ s[q] = ","
                       q2 == IF hasComma THEN SpanEnd(s, q + 1, WhiteSpace) ELSE q
                       withComma == IF hasComma
                                    THEN {e \in (q + 1)..q2 : AtLineEnd(s, e)}
                                    ELSE {}
                       noComma == {e \in p4..q : AtLineEnd(s, e)}
                   IN IF withComma # {} THEN MaxOf(withComma)
                      ELSE IF noComma # {} THEN MaxOf(noComma)
                      ELSE 0

RECURSIVE replaceRegex1(_, _)
replaceRegex1(s, i) ==
  IF i > Len(s) THEN <<>>
  ELSE LET e == regex1End(s, i)
       IN IF e > 0 THEN replaceRegex1(s, e)
          ELSE <<s[i]>> \o replaceRegex1(s, i + 1)

\* /^(\s*)([a-zA-Z][a-zA-Z0-9\s_.-]*[a-zA-Z0-9]|[a-zA-Z])\s+(")/gm  (line 26):
\* the position of the quote a match starting at i ends with, or 0.  The
\* junk class holds white space and no quote, so the quote is the first
\* character after the run of junk characters, and the junk ends at the last
\* character of the run that is not white space.
regex2Quote(s, i) ==
  IF ~(i <= Len(s) /\ AtLineStart(s, i)) THEN 0
  ELSE
    LET p1 == SpanEnd(s, i, WhiteSpace)
    IN IF ~(p1 <= Len(s) /\ s[p1] \in Alpha) THEN 0
       ELSE
         LET r == SpanEnd(s, p1 + 1, JunkChar)
             last == MaxOf({j \in p1..(r - 1) : s[j] \notin WhiteSpace})
         IN IF /\ r <= Len(s)
               /\ s[r] = QUOTE
               /\ last < r - 1
               /\ (last = p1 \/ s[last] \in AlphaNum)
            THEN r
            ELSE 0

\* the replacement '$1$3': the leading white space and the quote
RECURSIVE replaceRegex2(_, _)
replaceRegex2(s, i) ==
  IF i > Len(s) THEN <<>>
  ELSE LET r == regex2Quote(s, i)
       IN IF r > 0
          THEN Sub(s, i, SpanEnd(s, i, WhiteSpace)) \o <<QUOTE>>
                 \o replaceRegex2(s, r + 1)
          ELSE <<s[i]>> \o replaceRegex2(s, i + 1)

\* s.split('\n') and lines.join('\n')
RECURSIVE split(_)
split(s) ==
  IF \A k \in 1..Len(s) : s[k] # NL THEN <<s>>
     ELSE LET j == CHOOSE j \in 1..Len(s) :
                     s[j] = NL /\ \A k \in 1..(j - 1) : s[k] # NL
          IN <<Sub(s, 1, j)>> \o split(Sub(s, j + 1, Len(s) + 1))

RECURSIVE join(_)
join(lines) ==
  IF Len(lines) = 0 THEN <<>>
  ELSE IF Len(lines) = 1 THEN lines[1]
  ELSE lines[1] \o <<NL>> \o join(Tail(lines))

\* /^(true|false|-?\d+(\.\d+)?([eE][+-]?\d+)?)$/  (line 41)
isBareNumber(t) ==
  LET a == IF Len(t) >= 1 /\ t[1] = "-" THEN 2 ELSE 1
      b == SpanEnd(t, a, Digit)
      hasFrac == b <= Len(t) /\ t[b] = "."
      c == IF hasFrac THEN SpanEnd(t, b + 1, Digit) ELSE b
      hasExp == c <= Len(t) /\ t[c] \in {"e", "E"}
      d == IF hasExp /\ c + 1 <= Len(t) /\ t[c + 1] \in {"+", "-"}
           THEN c + 2 ELSE c + 1
      f == IF hasExp THEN SpanEnd(t, d, Digit) ELSE c
  IN /\ b > a
     /\ hasFrac => c > b + 1
     /\ hasExp => f > d
     /\ f = Len(t) + 1

isBareLiteral(t) ==
  \/ t = <<"t", "r", "u", "e">>
  \/ t = <<"f", "a", "l", "s", "e">>
  \/ isBareNumber(t)

\* the filter callback, lines 29-48
keepLine(line) ==
  LET t == trim(line)
      quotes == {j \in 1..Len(t) : t[j] = QUOTE}
  IN IF Len(t) = 0 THEN TRUE
     ELSE IF t[1] \in StructStart THEN TRUE
     ELSE IF t[Len(t)] \in StructEnd THEN TRUE
     ELSE IF /\ Includes(t, <<QUOTE, ":", QUOTE>>)
             /\ \E j \in quotes : \E k \in quotes : j < k
          THEN TRUE
     ELSE IF \E j \in 1..Len(t) : t[j] \in Alpha THEN isBareLiteral(t)
     ELSE TRUE

filterLines(s) == join(SelectSeq(split(s), keepLine))

\* /\n\s*\n/g replaced by '\n'  (line 51): a match runs from a newline to the
\* last newline of the white space that follows it
RECURSIVE collapseBlankLines(_, _)
collapseBlankLines(s, i) ==
  IF i > Len(s) THEN <<>>
  ELSE
    LET q == SpanEnd(s, i + 1, WhiteSpace)
        nls == {j \in (i + 1)..(q - 1) : s[j] = NL}
    IN IF s[i] = NL /\ nls # {}
       THEN <<NL>> \o collapseBlankLines(s, MaxOf(nls) + 1)
       ELSE <<s[i]>> \o collapseBlankLines(s, i + 1)

\* lines 15-51: the text handed to JSON.parse
sanitize(jsonString) ==
  LET s0 == unwrapFence(jsonString)
      s1 == replaceRegex1(s0, 1)
      s2 == replaceRegex2(s1, 1)
      s3 == filterLines(s2)
  IN trim(collapseBlankLines(s3, 1))

----------------------------------------------------------------------------
(* JSON.parse (lines 56 and 123): the ECMAScript JSON grammar.  A decoded   *)
(* value is a record of one shape for every kind, so that two values can    *)
(* always be compared: t the kind, s the text of a scalar (a number keeps   *)
(* its lexeme, a string its decoded characters), keys and kids the members  *)
(* of an object (a repeated key keeps its last value) or, with no keys, the *)
(* elements of an array.                                                    *)

JsonWS == {SP, TAB, NL, CR}

VNull == [t |-> "null", s |-> <<>>, keys |-> <<>>, kids |-> <<>>]
VBool(b) == [t |-> "bool", s |-> IF b THEN <<"true">> ELSE <<"false">>,
             keys |-> <<>>, kids |-> <<>>]
VNum(lexeme) == [t |-> "num", s |-> lexeme, keys |-> <<>>, kids |-> <<>>]
VStr(chars) == [t |-> "str", s |-> chars, keys |-> <<>>, kids |-> <<>>]
VArr(elems) == [t |-> "arr", s |-> <<>>, keys |-> <<>>, kids |-> elems]
VObj(ks, vs) == [t |-> "obj", s |-> <<>>, keys |-> ks, kids |-> vs]

\* a parse step: ok, the position after what was read, and the value
Parsed(n, v) == [ok |-> TRUE, next |-> n, val |-> v]
SyntaxError == [ok |-> FALSE, next |-> 0, val |-> VNull]

HexDigit == Digit \cup {"a","b","c","d","e","f","A","B","C","D","E","F"}

\* the character an escape \e stands for
unescape(e) ==
  CASE e = "n" -> NL
    [] e = "r" -> CR
    [] e = "t" -> TAB
    [] e = "b" -> "backspace"
    [] e = "f" -> "formfeed"
    [] OTHER -> e

\* the characters of a string literal from position j (after the opening
\* quote) on; acc is what was decoded so far
RECURSIVE parseStringChars(_, _, _)
parseStringChars(s, j, acc) ==
  IF j > Len(s) THEN SyntaxError
  ELSE IF s[j] = QUOTE THEN Parsed(j + 1, VStr(acc))
  ELSE IF s[j] \in {NL, CR, TAB} THEN SyntaxError
  ELSE IF s[j] # BACKSLASH THEN parseStringChars(s, j + 1, Append(acc, s[j]))
  ELSE IF j + 1 > Len(s) THEN SyntaxError
  ELSE IF s[j + 1] \in {QUOTE, BACKSLASH, "/", "b", "f", "n", "r", "t"}
       THEN parseStringChars(s, j + 2, Append(acc, unescape(s[j + 1])))
  ELSE IF /\ s[j + 1] = "u"
          /\ j + 5 <= Len(s)
          /\ \A k \in (j + 2)..(j + 5) : s[k] \in HexDigit
       THEN parseStringChars(s, j + 6, acc \o <<"U+">> \o SubSeq(s, j + 2, j + 5))
  ELSE SyntaxError

\* -?(0|[1-9][0-9]*)(\.[0-9]+)?([eE][+-]?[0-9]+)? from position i
parseNumber(s, i) ==
  LET a == IF s[i] = "-" THEN i + 1 ELSE i
      b == IF a <= Len(s) /\ s[a] = "0" THEN a + 1 ELSE SpanEnd(s, a, Digit)
      hasFrac == b <= Len(s) /\ s[b] = "."
      c == IF hasFrac THEN SpanEnd(s, b + 1, Digit) ELSE b
      hasExp == c <= Len(s) /\ s[c] \in {"e", "E"}
      d == IF hasExp /\ c + 1 <= Len(s) /\ s[c + 1] \in {"+", "-"}
           THEN c + 2 ELSE c + 1
      f == IF hasExp THEN SpanEnd(s, d, Digit) ELSE c
  IN IF b > a /\ (hasFrac => c > b + 1) /\ (hasExp => f > d)
     THEN Parsed(f, VNum(Sub(s, i, f)))
     ELSE SyntaxError

\* an object member list: the last value of a repeated key stays, at the
\* key's first place
putMember(ks, vs, k, v) ==
  IF \E n \in 1..Len(ks) : ks[n] = k
  THEN <<ks, [vs EXCEPT ![CHOOSE n \in 1..Len(ks) : ks[n] = k] = v]>>
  ELSE <<Append(ks, k), Append(vs, v)>>

RECURSIVE parseValue(_, _)
RECURSIVE parseElements(_, _, _)
RECURSIVE parseMembers(_, _, _, _)

\* after an element v of an array: a comma and the next element, or the
\* closing bracket
elementsAfterValue(s, acc, v) ==
  IF ~v.ok THEN SyntaxError
  ELSE LET j == SpanEnd(s, v.next, JsonWS)
       IN IF j > Len(s) THEN SyntaxError
          ELSE IF s[j] = "," THEN parseElements(s, j + 1, Append(acc, v.val))
          ELSE IF s[j] = "]" THEN Parsed(j + 1, VArr(Append(acc, v.val)))
          ELSE SyntaxError

\* the elements of an array from position i on (the first element starts
\* there), up to the closing bracket
parseElements(s, i, acc) == elementsAfterValue(s, acc, parseValue(s, i))

\* a member's key: a string literal after white space from position i on
parseKey(s, i) ==
  LET k0 == SpanEnd(s, i, JsonWS)
  IN IF k0 <= Len(s) /\ s[k0] = QUOTE
     THEN parseStringChars(s, k0 + 1, <<>>)
     ELSE SyntaxError

\* a member's colon and value from position n (after the key) on
parseColonValue(s, n) ==
  LET col == SpanEnd(s, n, JsonWS)
  IN IF col <= Len(s) /\ s[col] = ":"
     THEN parseValue(s, col + 1)
     ELSE SyntaxError

\* after the value v of the member k: a comma and the next member, or the
\* closing brace
membersAfterValue(s, ks, vs, k, v) ==
  IF ~v.ok THEN SyntaxError
  ELSE LET j == SpanEnd(s, v.next, JsonWS)
       IN IF j > Len(s) THEN SyntaxError
          ELSE IF s[j] = ","
          THEN parseMembers(s, j + 1, putMember(ks, vs, k, v.val)[1],
                            putMember(ks, vs, k, v.val)[2])
          ELSE IF s[j] = "}"
          THEN Parsed(j + 1, VObj(putMember(ks, vs, k, v.val)[1],
                                  putMember(ks, vs, k, v.val)[2]))
          ELSE SyntaxError

membersAfterKey(s, ks, vs, key) ==
  IF ~key.ok THEN SyntaxError
  ELSE membersAfterValue(s, ks, vs, key.val.s, parseColonValue(s, key.next))

\* the members of an object from position i on (the first key starts after
\* white space there), up to the closing brace
parseMembers(s, i, ks, vs) == membersAfterKey(s, ks, vs, parseKey(s, i))

\* a JSON value after optional white space from position i on
parseValue(s, i) ==
  LET j == SpanEnd(s, i, JsonWS)
  IN IF j > Len(s) THEN SyntaxError
     ELSE IF s[j] = "{" THEN
       LET k == SpanEnd(s, j + 1, JsonWS)
       IN IF k <= Len(s) /\ s[k] = "}" THEN Parsed(k + 1, VObj(<<>>, <<>>))
          ELSE parseMembers(s, j + 1, <<>>, <<>>)
     ELSE IF s[j] = "[" THEN
       LET k == SpanEnd(s, j + 1, JsonWS)
       IN IF k <= Len(s) /\ s[k] = "]" THEN Parsed(k + 1, VArr(<<>>))
          ELSE parseElements(s, j + 1, <<>>)
     ELSE IF s[j] = QUOTE THEN parseStringChars(s, j + 1, <<>>)
     ELSE IF s[j] = "-" \/ s[j] \in Digit THEN parseNumber(s, j)
     ELSE IF StartsWithAt(s, j, <<"t","r","u","e">>) THEN Parsed(j + 4, VBool(TRUE))
     ELSE IF StartsWithAt(s, j, <<"f","a","l","s","e">>) THEN Parsed(j + 5, VBool(FALSE))
     ELSE IF StartsWithAt(s, j, <<"n","u","l","l">>) THEN Parsed(j + 4, VNull)
     ELSE SyntaxError

\* nothing but white space may follow the value v of the text
onlyValue(text, v) ==
  IF v.ok /\ SpanEnd(text, v.next, JsonWS) = Len(text) + 1
  THEN v
  ELSE SyntaxError

\* JSON.parse(text): ok = FALSE is the SyntaxError it throws
JSONparse(text) == onlyValue(text, parseValue(text, 1))

----------------------------------------------------------------------------
(* JavaScript values around the parse: truthiness and property access.      *)

VUndefined == [t |-> "undefined", s |-> <<>>, keys |-> <<>>, kids |-> <<>>]

\* a number lexeme whose value is 0: only zeros before the exponent
isZeroLexeme(lexeme) ==
  LET e == SpanEnd(lexeme, 1, Digit \cup {"-", "."})
  IN \A k \in 1..(e - 1) : lexeme[k] \in {"0", "-", "."}

\* !v
isFalsy(v) ==
  \/ v.t \in {"null", "undefined"}
  \/ v.t = "bool" /\ v.s = <<"false">>
  \/ v.t = "num" /\ isZeroLexeme(v.s)
  \/ v.t = "str" /\ v.s = <<>>

\* a || []
orEmptyArray(v) == IF isFalsy(v) THEN VArr(<<>>) ELSE v

\* v.k for an own property name k that no prototype defines
getProp(v, k) ==
  IF v.t = "obj" /\ \E n \in 1..Len(v.keys) : v.keys[n] = k
  THEN v.kids[CHOOSE n \in 1..Len(v.keys) : v.keys[n] = k]
  ELSE VUndefined

\* v.k = ... : module code is strict, so the assignment throws a TypeError
\* on a primitive and creates the property on an object or an array
canSetProp(v) == v.t \in {"obj", "arr"}

analysisKey == <<"a","n","a","l","y","s","i","s">>
similarProductsKey == <<"s","i","m","i","l","a","r","P","r","o","d","u","c","t","s">>
complementaryProductsKey ==
  <<"c","o","m","p","l","e","m","e","n","t","a","r","y","P","r","o","d","u","c","t","s">>

\* the texts of the messages; a constant part after the first words is kept
\* as one element
parseFailureMessage == <<"Failed to parse Gemini response or response was empty.">>
unknownErrorMessage == <<"An unknown error occurred during image analysis.">>
typeErrorMessage == <<"Cannot create property 'similarProducts' on a primitive">>

\* line 210
errorAnalysis(errorMessage) ==
  <<"E","r","r","o","r"," ","d","u","r","i","n","g"," ",
    "a","n","a","l","y","s","i","s",":"," ">>
    \o errorMessage \o <<".", " Please try a different image or prompt.">>

\* errorResponse without the two empty arrays
errorResponseBare(errorMessage) ==
  [analysis |-> VStr(errorAnalysis(errorMessage)),
   similarProducts |-> VUndefined,
   complementaryProducts |-> VUndefined]

\* lines 209-213
errorResponse(errorMessage) ==
  [analysis |-> VStr(errorAnalysis(errorMessage)),
   similarProducts |-> VArr(<<>>),
   complementaryProducts |-> VArr(<<>>)]

\* lines 200-203: the object returned, seen through its three fields
normalizedResponse(parsed) ==
  [analysis |-> getProp(parsed, analysisKey),
   similarProducts |-> orEmptyArray(getProp(parsed, similarProductsKey)),
   complementaryProducts |-> orEmptyArray(getProp(parsed, complementaryProductsKey))]

noResponse ==
  [analysis |-> VUndefined, similarProducts |-> VUndefined,
   complementaryProducts |-> VUndefined]

----------------------------------------------------------------------------
(* What the model endpoint may answer (response.text, line 190) and how a   *)
(* call may fail.                                                           *)

\* the most pieces a generated text is made of
MaxPieces == 3

Pieces ==
  { Fence,
    <<"j","s","o","n">>,
    <<"t","r","u","e">>,
    <<"n","u","l","l">>,
    <<"1">>,
    <<"x">>,
    <<"{">>, <<"}">>, <<"[">>, <<"]">>, <<",">>,
    <<QUOTE,"a",QUOTE>>,
    <<QUOTE,"a",QUOTE,":">>,
    <<NL>>, <<SP>> }

RECURSIVE concat(_)
concat(ps) == IF Len(ps) = 0 THEN <<>> ELSE Head(ps) \o concat(Tail(ps))

\* every text of at most MaxPieces pieces
GeneratedTexts ==
  {concat(ps) : ps \in UNION {[1..n -> Pieces] : n \in 0..MaxPieces}}

SampleTexts ==
  {
    \* the examples of the specification
    <<BT,BT,BT,"j","s","o","n",NL,"{",QUOTE,"a",QUOTE,":","1","}",NL,BT,BT,BT>>,
    <<"{",QUOTE,"a",QUOTE,":","1","}",SP,"s","o","m","e",SP,"e","x","t","r","a",SP,"c","o","m","m","e","n","t","a","r","y",SP,"h","e","r","e">>,
    <<"{",QUOTE,"a",QUOTE,":",SP,"[","}">>,
    \* JSON laid out over several lines
    <<"[",NL,"n","u","l","l",NL,"]">>,
    <<"[",NL,"1","]","x">>,
    <<"{",QUOTE,"a",QUOTE,":",NL,"1","}",SP,"x">>,
    <<"{",QUOTE,"a",QUOTE,":",NL,"1",",",QUOTE,"b",QUOTE,":","{",QUOTE,"d",QUOTE,":",NL,"1","}">>,
    <<"{",QUOTE,"a",QUOTE,":",NL,"1",",",QUOTE,"b",QUOTE,":","{",QUOTE,"d",QUOTE,":",NL,"1","}","}">>,
    \* fences inside fences
    <<BT,BT,BT,NL,BT,BT,BT,NL,"[","]",NL,BT,BT,BT,NL,BT,BT,BT>>,
    <<BT,BT,BT,SP,"j","s","o","n",NL,"[","1","]",BT,BT,BT>>,
    \* braces and quotes inside strings
    <<"{",QUOTE,"a",QUOTE,":",QUOTE,"}",QUOTE,"}",SP,"x">>,
    <<"{",QUOTE,"a",QUOTE,":",QUOTE,BACKSLASH,QUOTE,"}",QUOTE,"}",SP,"x">>,
    <<"[","{",QUOTE,"a",QUOTE,":","[","]","}","]",SP,"x">>,
    \* answers in the shape the prompt asks for
    <<"{",QUOTE,"a","n","a","l","y","s","i","s",QUOTE,":",QUOTE,"a",QUOTE,",",QUOTE,"s","i","m","i","l","a","r","P","r","o","d","u","c","t","s",QUOTE,":","[","]",",",QUOTE,"c","o","m","p","l","e","m","e","n","t","a","r","y","P","r","o","d","u","c","t","s",QUOTE,":","[","]","}">>,
    <<"{",QUOTE,"a","n","a","l","y","s","i","s",QUOTE,":",QUOTE,"a",QUOTE,",",QUOTE,"s","i","m","i","l","a","r","P","r","o","d","u","c","t","s",QUOTE,":","[","{",QUOTE,"i","d",QUOTE,":",QUOTE,"1",QUOTE,"}","]","}">>,
    <<"{",QUOTE,"s","i","m","i","l","a","r","P","r","o","d","u","c","t","s",QUOTE,":","1","}">>,
    <<"{",QUOTE,"c","o","m","p","l","e","m","e","n","t","a","r","y","P","r","o","d","u","c","t","s",QUOTE,":","n","u","l","l","}">>,
    <<"{",QUOTE,"a","n","a","l","y","s","i","s",QUOTE,":",QUOTE,QUOTE,"}">>
  }

ModelTexts == GeneratedTexts \cup SampleTexts

\* what generateContent may throw: an Error with a message, or another value
TransportErrors ==
  { [isError |-> TRUE, message |-> <<"fetch failed">>],
    [isError |-> TRUE, message |-> <<>>],
    [isError |-> FALSE, message |-> <<>>] }

----------------------------------------------------------------------------
(* sanitizeAndParseJson, lines 54-134: the strict parse and the fallback.   *)

\* lines 71-73: "none" stands for null
expectedOpen(s) ==
  LET t == trimStart(s)
  IN IF Len(t) > 0 /\ t[1] \in {"{", "["} THEN t[1] ELSE "none"

expectedClose(s) ==
  CASE expectedOpen(s) = "{" -> "}"
    [] expectedOpen(s) = "[" -> "]"
    [] OTHER -> "none"

\* lines 100-110, for the code's index i
initialStructuralCharFound(s, i) ==
  LET stops == {j \in 1..(i + 1) :
                  s[j] = expectedOpen(s) \/ s[j] \notin {SP, NL, CR, TAB}}
  IN stops # {} /\ s[CHOOSE j \in stops : \A k \in stops : j <= k] = expectedOpen(s)

\* lines 66-69: the loop's variables before its first iteration
scanStart ==
  [i |-> 0, openCount |-> 0, inString |-> FALSE, escapeNextChar |-> FALSE,
   endIndex |-> -1]

\* scanStep with the count taken inside string literals too
scanStepCountsInStrings(s, st) ==
  LET char == s[st.i + 1]
      quoted == IF char = QUOTE THEN ~st.inString ELSE st.inString
      count == IF char = expectedOpen(s) THEN st.openCount + 1
               ELSE IF char = expectedClose(s) THEN st.openCount - 1
               ELSE st.openCount
  IN IF st.escapeNextChar
     THEN [st EXCEPT !.escapeNextChar = FALSE, !.i = st.i + 1]
     ELSE IF char = BACKSLASH
     THEN [st EXCEPT !.escapeNextChar = TRUE, !.i = st.i + 1]
     ELSE IF count = 0 /\ initialStructuralCharFound(s, st.i)
     THEN [st EXCEPT !.inString = quoted, !.openCount = count,
                     !.endIndex = st.i + 1]
     ELSE [st EXCEPT !.inString = quoted, !.openCount = count,
                     !.i = st.i + 1]

\* scanStep with endIndex = i in place of i + 1
scanStepEndsEarly(s, st) ==
  LET char == s[st.i + 1]
      quoted == IF char = QUOTE THEN ~st.inString ELSE st.inString
      count == IF quoted THEN st.openCount
               ELSE IF char = expectedOpen(s) THEN st.openCount + 1
               ELSE IF char = expectedClose(s) THEN st.openCount - 1
               ELSE st.openCount
  IN IF st.escapeNextChar
     THEN [st EXCEPT !.escapeNextChar = FALSE, !.i = st.i + 1]
     ELSE IF char = BACKSLASH
     THEN [st EXCEPT !.escapeNextChar = TRUE, !.i = st.i + 1]
     ELSE IF count = 0 /\ initialStructuralCharFound(s, st.i)
     THEN [st EXCEPT !.inString = quoted, !.openCount = count,
                     !.endIndex = st.i]
     ELSE [st EXCEPT !.inString = quoted, !.openCount = count,
                     !.i = st.i + 1]

\* lines 77-116: one iteration of the loop at index st.i < s.length;
\* the break leaves i as it is and sets endIndex
scanStep(s, st) ==
  LET char == s[st.i + 1]
      quoted == IF char = QUOTE THEN ~st.inString ELSE st.inString
      count == IF quoted THEN st.openCount
               ELSE IF char = expectedOpen(s) THEN st.openCount + 1
               ELSE IF char = expectedClose(s) THEN st.openCount - 1
               ELSE st.openCount
  IN IF st.escapeNextChar
     THEN [st EXCEPT !.escapeNextChar = FALSE, !.i = st.i + 1]
     ELSE IF char = BACKSLASH
     THEN [st EXCEPT !.escapeNextChar = TRUE, !.i = st.i + 1]
     ELSE IF count = 0 /\ initialStructuralCharFound(s, st.i)
     THEN [st EXCEPT !.inString = quoted, !.openCount = count,
                     !.endIndex = st.i + 1]
     ELSE [st EXCEPT !.inString = quoted, !.openCount = count,
                     !.i = st.i + 1]

\* the loop has ended: by its break or by i reaching s.length
scanEnded(s, st) == st.endIndex # -1 \/ st.i >= Len(s)

RECURSIVE scanLoop(_, _)
scanLoop(s, st) == IF scanEnded(s, st) THEN st ELSE scanLoop(s, scanStep(s, st))

\* line 120
potentialJsonOf(s, end) == Sub(s, 1, end + 1)

\* lines 54-63 and 71-75: how the function goes on after the strict parse
\* gave r.  via names the return statement: "strict" line 56, "empty" line
\* 62, "absent" line 133; "scan" enters the loop of line 76
afterStrictParse(s, r) ==
  IF r.ok THEN [via |-> "strict", val |-> r.val]
  ELSE IF Len(s) = 0 THEN [via |-> "empty", val |-> VNull]
  ELSE IF expectedOpen(s) = "none" THEN [via |-> "absent", val |-> VNull]
  ELSE [via |-> "scan", val |-> VUndefined]

strictParse(s) == afterStrictParse(s, JSONparse(s))

\* afterFallbackParse without the try of line 121: the SyntaxError leaves the
\* function
afterFallbackParseUncaught(r) ==
  IF r.ok THEN [via |-> "fallback", val |-> r.val]
  ELSE [via |-> "threw", val |-> VUndefined]

\* lines 121-126 and 133: "fallback" is the return of line 123; the catch of
\* line 124 has an empty body, and line 133 returns null
afterFallbackParse(r) ==
  IF r.ok THEN [via |-> "fallback", val |-> r.val]
  ELSE [via |-> "absent", val |-> VNull]

\* lines 119-133
fallbackParse(s, end) ==
  IF end = -1 THEN [via |-> "absent", val |-> VNull]
  ELSE afterFallbackParse(JSONparse(potentialJsonOf(s, end)))

\* lines 65-133, once the strict parse gave first
afterFirst(s, first) ==
  IF first.via # "scan" THEN first
  ELSE fallbackParse(s, scanLoop(s, scanStart).endIndex)

parseSanitized(s) == afterFirst(s, strictParse(s))

\* the whole function, lines 14-135
sanitizeAndParseJson(jsonString) == parseSanitized(sanitize(jsonString))

----------------------------------------------------------------------------
(* The state: one call of analyzeImageAndSuggestProducts.                   *)

VARIABLES
  pc,              \* where the call is
  rawJson,         \* line 190
  saneJsonString,  \* lines 15-51
  i, openCount, inString, escapeNextChar, endIndex,   \* lines 66-76
  parsedData,      \* line 192: what sanitizeAndParseJson returned (null: VNull)
  via,             \* the return statement it returned by, "threw" if it threw
  failure,         \* what the catch of line 205 caught: none, transport,
                   \* parse (line 196), type (lines 200-201), exception
  result,          \* the value the promise resolves to
  settled          \* the promise: pending, resolved, rejected

\* The page around the call: the state of App, of ImageUpload and the model
\* calls that have not settled yet.
VARIABLES
  state,             \* App.tsx line 29: the AppState
  initialChatPrompt, \* App.tsx line 30
  preview,           \* ImageUpload, App.tsx line 298: the image shown, 0 for null
  uploadError,       \* ImageUpload, App.tsx line 299
  selected,          \* how many image files have been picked; the k-th is image k
  readers,           \* the images a FileReader is still reading (line 326)
  analysisCalls,     \* the images whose analysis has not settled (line 47)
  chatCalls,         \* the sendMessageInChat calls that have not settled (line 111)
  sends,             \* how many times sendMessageInChat has been called
  chatExchanges,     \* how many times chat.sendMessage has been called
  returnedFor,       \* history: what the analysis of each image resolved to
  lastExchange,      \* history: how the last settled chat.sendMessage ended
  lastReply          \* history: what sendMessageInChat then resolved to

serviceVars == <<pc, rawJson, saneJsonString, i, openCount, inString,
                 escapeNextChar, endIndex, parsedData, via, failure, result,
                 settled>>

appVars == <<state, initialChatPrompt, preview, uploadError, selected, readers,
             analysisCalls, chatCalls, sends, chatExchanges, returnedFor,
             lastExchange, lastReply>>

vars == <<serviceVars, appVars>>

scanVars == <<i, openCount, inString, escapeNextChar, endIndex>>

scanState ==
  [i |-> i, openCount |-> openCount, inString |-> inString,
   escapeNextChar |-> escapeNextChar, endIndex |-> endIndex]

\* the most image files picked and the most chat messages sent
MaxUploads == 2
MaxSends == 1

Images == 1..MaxUploads

\* App.tsx lines 12-26; 0 stands for null in uploadedImage and currentChat.
\* A chat handle is named by the image whose analysis created it.
initialState ==
  [uploadedImage |-> 0,
   analyzedText |-> VNull,
   similarProducts |-> VArr(<<>>),
   complementaryProducts |-> VArr(<<>>),
   chatMessages |-> <<>>,
   currentChat |-> 0,
   isLoading |-> FALSE,
   loadingState |-> "idle",
   error |-> <<>>]

noExchange == [ok |-> FALSE, isError |-> FALSE, text |-> <<>>, message |-> <<>>]

\* the page after its first render
AppAtRest ==
  /\ state = initialState
  /\ initialChatPrompt = "undefined"
  /\ preview = 0
  /\ uploadError = "null"
  /\ selected = 0
  /\ readers = {}
  /\ analysisCalls = {}
  /\ chatCalls = {}
  /\ sends = 0
  /\ chatExchanges = 0
  /\ returnedFor = [k \in Images |-> noResponse]
  /\ lastExchange = noExchange
  /\ lastReply = [settled |-> "pending", text |-> <<>>]

Init ==
  /\ pc = "call"
  /\ rawJson = <<>>
  /\ saneJsonString = <<>>
  /\ i = scanStart.i
  /\ openCount = scanStart.openCount
  /\ inString = scanStart.inString
  /\ escapeNextChar = scanStart.escapeNextChar
  /\ endIndex = scanStart.endIndex
  /\ parsedData = VUndefined
  /\ via = "none"
  /\ failure = "none"
  /\ result = noResponse
  /\ settled = "pending"
  /\ AppAtRest

\* lines 182-190: the model answers with a text
GenerateContentResolves ==
  /\ pc = "call"
  /\ \E text \in ModelTexts : rawJson' = text
  /\ pc' = "sanitize"
  /\ UNCHANGED <<saneJsonString, scanVars, parsedData, via, failure, result,
                 settled>>
  /\ UNCHANGED appVars

\* line 207
messageOf(error) == IF error.isError THEN error.message ELSE unknownErrorMessage

\* lines 182 and 205-214: the call fails and the catch answers for it
GenerateContentRejects ==
  /\ pc = "call"
  /\ \E error \in TransportErrors : result' = errorResponse(messageOf(error))
  /\ failure' = "transport"
  /\ settled' = "resolved"
  /\ pc' = "done"
  /\ UNCHANGED <<rawJson, saneJsonString, scanVars, parsedData, via>>
  /\ UNCHANGED appVars

\* lines 15-51
Sanitize ==
  /\ pc = "sanitize"
  /\ saneJsonString' = sanitize(rawJson)
  /\ pc' = "parse"
  /\ UNCHANGED <<rawJson, scanVars, parsedData, via, failure, result, settled>>
  /\ UNCHANGED appVars

\* lines 54-75
Returns(r) ==
  IF r.via = "scan"
  THEN pc' = "scan" /\ UNCHANGED <<parsedData, via>>
  ELSE pc' = "returned" /\ parsedData' = r.val /\ via' = r.via

StrictParse ==
  /\ pc = "parse"
  /\ Returns(strictParse(saneJsonString))
  /\ UNCHANGED <<rawJson, saneJsonString, scanVars, failure, result, settled>>
  /\ UNCHANGED appVars

\* lines 76-117: one iteration; the loop's test of i is part of the step
\* that follows it
ScanTo(st) ==
  /\ i' = st.i
  /\ openCount' = st.openCount
  /\ inString' = st.inString
  /\ escapeNextChar' = st.escapeNextChar
  /\ endIndex' = st.endIndex

ScanChar ==
  /\ pc = "scan"
  /\ ~scanEnded(saneJsonString, scanState)
  /\ ScanTo(scanStep(saneJsonString, scanState))
  /\ UNCHANGED <<pc, rawJson, saneJsonString, parsedData, via, failure, result,
                 settled>>
  /\ UNCHANGED appVars

\* lines 119-133
FallbackParse ==
  /\ pc = "scan"
  /\ scanEnded(saneJsonString, scanState)
  /\ Returns(fallbackParse(saneJsonString, endIndex))
  /\ UNCHANGED <<rawJson, saneJsonString, scanVars, failure, result, settled>>
  /\ UNCHANGED appVars

\* lines 194-214: what the promise resolves to once sanitizeAndParseJson has
\* returned (or thrown); every throw lands in the catch of line 205
afterParse(how, parsed) ==
  IF how = "threw"
  THEN [failure |-> "exception", result |-> errorResponse(<<"SyntaxError">>)]
  ELSE IF isFalsy(parsed)
  THEN [failure |-> "parse", result |-> errorResponse(parseFailureMessage)]
  ELSE IF ~canSetProp(parsed)
  THEN [failure |-> "type", result |-> errorResponse(typeErrorMessage)]
  ELSE [failure |-> "none", result |-> normalizedResponse(parsed)]

Settles(r) ==
  /\ failure' = r.failure
  /\ result' = r.result
  /\ settled' = "resolved"
  /\ pc' = "done"

Normalize ==
  /\ pc = "returned"
  /\ Settles(afterParse(via, parsedData))
  /\ UNCHANGED <<rawJson, saneJsonString, scanVars, parsedData, via>>
  /\ UNCHANGED appVars

Next ==
  \/ GenerateContentResolves
  \/ GenerateContentRejects
  \/ Sanitize
  \/ StrictParse
  \/ ScanChar
  \/ FallbackParse
  \/ Normalize

Spec == Init /\ [][Next]_vars

----------------------------------------------------------------------------
(* The page: App (App.tsx lines 28-140), ImageUpload (lines 297-343),       *)
(* ChatInterface.handleSend and the two calls of the service they await.    *)
(* A ChatMessage is kept by its sender and text; chat names the chat handle *)
(* the message was sent to or came from.                                    *)

\* part_000 lines 192-214 for what sanitizeAndParseJson returned
resolvedWith(r) == afterParse(r.via, r.val).result

\* the model texts the page is run with
AnalysisTexts ==
  {
    <<"{",QUOTE,"a","n","a","l","y","s","i","s",QUOTE,":",QUOTE,"a",QUOTE,",",QUOTE,"s","i","m","i","l","a","r","P","r","o","d","u","c","t","s",QUOTE,":","[","]",",",QUOTE,"c","o","m","p","l","e","m","e","n","t","a","r","y","P","r","o","d","u","c","t","s",QUOTE,":","[","]","}">>,
    <<"{",QUOTE,"a","n","a","l","y","s","i","s",QUOTE,":",QUOTE,"b",QUOTE,",",QUOTE,"s","i","m","i","l","a","r","P","r","o","d","u","c","t","s",QUOTE,":","[","{",QUOTE,"i","d",QUOTE,":",QUOTE,"1",QUOTE,"}","]","}">>,
    <<"{",QUOTE,"a","n","a","l","y","s","i","s",QUOTE,":",QUOTE,"E","r","r","o","r",":",SP,"x",QUOTE,"}">>,
    <<"{",QUOTE,"a","n","a","l","y","s","i","s",QUOTE,":",QUOTE,QUOTE,"}">>,
    <<"{",QUOTE,"s","i","m","i","l","a","r","P","r","o","d","u","c","t","s",QUOTE,":","1","}">>,
    <<"{",QUOTE,"a",QUOTE,":",SP,"[","}">>
  }

\* how generateContent fails when the page is run
AnalysisErrors == {error \in TransportErrors : error.message # <<>>}

\* what analyzeImageAndSuggestProducts may resolve to: lines 190-214 for
\* every text, taken step by step (sanitize, parse, normalise), and the
\* answer of the catch for every failure of the call
SanitizedAnalysisTexts == {sanitize(text) : text \in AnalysisTexts}

ParsedAnalysisTexts == {parseSanitized(s) : s \in SanitizedAnalysisTexts}

AnalysisOutcomes ==
  {resolvedWith(r) : r \in ParsedAnalysisTexts}
    \cup {errorResponse(messageOf(error)) : error \in AnalysisErrors}

\* the three fields of a result the page keeps
suggestionOf(r) ==
  <<r.analysis, r.similarProducts, r.complementaryProducts>>

shownSuggestion == <<state.analyzedText, state.similarProducts,
                     state.complementaryProducts>>

clearedSuggestion == <<VNull, VArr(<<>>), VArr(<<>>)>>

\* App.tsx lines 33-44
uploadStarted(st, base64Image) ==
  [st EXCEPT !.isLoading = TRUE,
             !.loadingState = "analyzing_image",
             !.uploadedImage = base64Image,
             !.error = <<>>,
             !.similarProducts = VArr(<<>>),
             !.complementaryProducts = VArr(<<>>),
             !.chatMessages = <<>>,
             !.analyzedText = VNull]

\* analysis.startsWith("Error:")
startsWithError(analysis) ==
  StartsWithAt(analysis, 1, <<"E","r","r","o","r",":">>)

\* line 55
greeting(analysis) ==
  <<"Okay, I've analyzed your image! Here's what I see: ">> \o analysis

\* line 63
processedMessage ==
  <<"I've processed the image. How can I help you find what you're looking for?">>

\* line 51, for an analysis that is a string
greets(analysis) == Len(analysis) > 0 /\ ~startsWithError(analysis)

\* lines 51-67: the text of the first message
initialText(analysis) ==
  IF greets(analysis) THEN greeting(analysis)
  ELSE IF startsWithError(analysis) THEN analysis
  ELSE processedMessage

\* lines 58 and 66
initialPromptFor(analysis) == IF greets(analysis) THEN "more" ELSE "find"

\* lines 51 and 63: startsWith is called on result.analysis, which throws a
\* TypeError unless the analysis is a string
analysisThrows(r) == r.analysis.t # "str"

\* lines 82-88
analysisCaught(st) ==
  [st EXCEPT !.error = <<"Failed to analyze image: ", "TypeError">>,
             !.isLoading = FALSE,
             !.loadingState = "idle"]

\* lines 48-79 with the completion of lines 70-79 merging the new products
\* into the ones shown
analysisAppliedMerging(st, r, newChat) ==
  [st EXCEPT !.analyzedText = r.analysis,
             !.similarProducts =
                IF st.similarProducts.t = "arr" /\ st.similarProducts.kids # <<>>
                THEN st.similarProducts ELSE r.similarProducts,
             !.complementaryProducts = r.complementaryProducts,
             !.currentChat = newChat,
             !.chatMessages =
                <<[sender |-> "ai", text |-> initialText(r.analysis.s),
                   chat |-> newChat]>>,
             !.isLoading = FALSE,
             !.loadingState = "idle"]

\* lines 48-79
analysisApplied(st, r, newChat) ==
  [st EXCEPT !.analyzedText = r.analysis,
             !.similarProducts = r.similarProducts,
             !.complementaryProducts = r.complementaryProducts,
             !.currentChat = newChat,
             !.chatMessages =
                <<[sender |-> "ai", text |-> initialText(r.analysis.s),
                   chat |-> newChat]>>,
             !.isLoading = FALSE,
             !.loadingState = "idle"]

\* lines 46-89, once the analysis has resolved to r
analysisSettled(st, r, newChat) ==
  IF analysisThrows(r) THEN analysisCaught(st)
  ELSE analysisApplied(st, r, newChat)

\* lines 238 without the test of state.currentChat
chatOfferedForImage(st) == st.uploadedImage # 0

\* line 238: ChatInterface is rendered
chatOffered(st) == st.uploadedImage # 0 /\ st.currentChat # 0

\* line 179 and lines 336-343: the file input is disabled
uploadDisabled(st) == st.loadingState = "analyzing_image"

\* line 243 and ChatInterface lines 28 and 79-83: the chat input is disabled
chatDisabled(st) == st.loadingState = "chatting"

\* what the user may type, trimmed and not empty (ChatInterface line 28)
ChatTexts == {<<"more like this">>, <<"in red">>}

\* line 93
sendReturnsAtOnce(st) == st.currentChat = 0

\* lines 95-108
messageSent(st, messageText) ==
  IF sendReturnsAtOnce(st) THEN st
  ELSE [st EXCEPT !.chatMessages =
                     Append(@, [sender |-> "user", text |-> messageText,
                                chat |-> st.currentChat]),
                  !.isLoading = TRUE,
                  !.loadingState = "chatting",
                  !.error = <<>>]

\* how chat.sendMessage may end: with a reply text, or by throwing an Error
\* or another value
ChatReplies ==
  { <<"Here are some ideas.">>,
    <<BT,BT,BT,"j","s","o","n",NL,"{",QUOTE,"a",QUOTE,":","1","}",NL,BT,BT,BT>> }

ChatErrors == {error \in TransportErrors : error.isError => error.message # <<>>}

ChatOutcomes ==
  {[ok |-> TRUE, isError |-> FALSE, text |-> text, message |-> <<>>] :
     text \in ChatReplies}
    \cup {[ok |-> FALSE, isError |-> error.isError, text |-> <<>>,
           message |-> error.message] : error \in ChatErrors}

\* part_000 line 239
chatErrorMessage(error) ==
  IF error.isError THEN error.message
  ELSE <<"An unknown error occurred during chat.">>

\* part_000 line 240
apology(errorMessage) ==
  <<"I apologize, but I encountered an error: ">> \o errorMessage

\* sendMessageInChat with the reply put through the sanitizer
sendMessageInChatSanitized(exchange) ==
  [settled |-> "resolved",
   text |-> IF exchange.ok THEN sanitize(exchange.text)
            ELSE apology(chatErrorMessage(exchange))]

\* part_000 lines 233-242, once chat.sendMessage has ended
sendMessageInChat(exchange) ==
  [settled |-> "resolved",
   text |-> IF exchange.ok THEN exchange.text
            ELSE apology(chatErrorMessage(exchange))]

\* App.tsx lines 111-139
replyShown(st, reply, chat) ==
  [st EXCEPT !.chatMessages =
               Append(@, [sender |-> "ai",
                          text |-> IF reply.settled = "resolved" THEN reply.text
                                   ELSE <<"Sorry, I encountered an error: ">>
                                          \o reply.text,
                          chat |-> chat]),
             !.isLoading = FALSE,
             !.loadingState = "idle"]

\* ImageUpload lines 302-326: an image file of at most 5MB is picked
SelectImageFile ==
  /\ ~uploadDisabled(state)
  /\ selected < MaxUploads
  /\ selected' = selected + 1
  /\ readers' = readers \cup {selected + 1}
  /\ uploadError' = "null"
  /\ UNCHANGED <<state, initialChatPrompt, preview, analysisCalls, chatCalls,
                 sends, chatExchanges, returnedFor, lastExchange, lastReply>>
  /\ UNCHANGED serviceVars

\* lines 305-314: the file is not an image, or is larger than 5MB
SelectBadFile ==
  /\ ~uploadDisabled(state)
  /\ \E why \in {"Invalid file type.", "File is too large."} :
       uploadError' = why
  /\ preview' = 0
  /\ UNCHANGED <<state, initialChatPrompt, selected, readers, analysisCalls,
                 chatCalls, sends, chatExchanges, returnedFor, lastExchange,
                 lastReply>>
  /\ UNCHANGED serviceVars

\* lines 317-321 and 32-47: the file is read and handleImageUpload runs up
\* to its await
ReaderLoads ==
  /\ \E image \in readers :
       /\ readers' = readers \ {image}
       /\ preview' = image
       /\ state' = uploadStarted(state, image)
       /\ analysisCalls' = analysisCalls \cup {image}
  /\ UNCHANGED <<initialChatPrompt, uploadError, selected, chatCalls, sends,
                 chatExchanges, returnedFor, lastExchange, lastReply>>
  /\ UNCHANGED serviceVars

\* lines 322-325: the read fails; onloadend, which follows, throws on the
\* null result before it calls onImageUpload
ReaderFails ==
  /\ \E image \in readers : readers' = readers \ {image}
  /\ uploadError' = "Failed to read file."
  /\ preview' = 0
  /\ UNCHANGED <<state, initialChatPrompt, selected, analysisCalls, chatCalls,
                 sends, chatExchanges, returnedFor, lastExchange, lastReply>>
  /\ UNCHANGED serviceVars

\* lines 47-89: an analysis resolves and handleImageUpload runs to its end
AnalysisSettles ==
  /\ \E image \in analysisCalls : \E r \in AnalysisOutcomes :
       /\ analysisCalls' = analysisCalls \ {image}
       /\ returnedFor' = [returnedFor EXCEPT ![image] = r]
       /\ state' = analysisSettled(state, r, image)
       /\ initialChatPrompt' = IF analysisThrows(r) THEN initialChatPrompt
                               ELSE initialPromptFor(r.analysis.s)
  /\ UNCHANGED <<preview, uploadError, selected, readers, chatCalls, sends,
                 chatExchanges, lastExchange, lastReply>>
  /\ UNCHANGED serviceVars

\* lines 146-152: the timer of the effect fires
ClearInitialChatPrompt ==
  /\ initialChatPrompt # "undefined"
  /\ Len(state.chatMessages) > 0
  /\ initialChatPrompt' = "undefined"
  /\ UNCHANGED <<state, preview, uploadError, selected, readers, analysisCalls,
                 chatCalls, sends, chatExchanges, returnedFor, lastExchange,
                 lastReply>>
  /\ UNCHANGED serviceVars

\* ChatInterface lines 27-32 and App.tsx lines 92-111: a message is sent and
\* handleSendMessage runs up to its await
newCalls(st, messageText) ==
  IF sendReturnsAtOnce(st) THEN {}
  ELSE {[n |-> sends + 1, chat |-> st.currentChat, message |-> messageText]}

HandleSend ==
  /\ chatOffered(state)
  /\ ~chatDisabled(state)
  /\ sends < MaxSends
  /\ \E messageText \in ChatTexts :
       /\ state' = messageSent(state, messageText)
       /\ chatCalls' = chatCalls \cup newCalls(state, messageText)
  /\ sends' = sends + Cardinality(newCalls(state, <<>>))
  /\ chatExchanges' = chatExchanges + Cardinality(newCalls(state, <<>>))
  /\ UNCHANGED <<initialChatPrompt, preview, uploadError, selected, readers,
                 analysisCalls, returnedFor, lastExchange, lastReply>>
  /\ UNCHANGED serviceVars

\* lines 111-139: sendMessageInChat settles and handleSendMessage runs to
\* its end
ChatSettles ==
  /\ \E call \in chatCalls : \E exchange \in ChatOutcomes :
       /\ chatCalls' = chatCalls \ {call}
       /\ lastExchange' = exchange
       /\ lastReply' = sendMessageInChat(exchange)
       /\ state' = replyShown(state, sendMessageInChat(exchange), call.chat)
  /\ UNCHANGED <<initialChatPrompt, preview, uploadError, selected, readers,
                 analysisCalls, sends, chatExchanges, returnedFor>>
  /\ UNCHANGED serviceVars

AppNext ==
  \/ SelectImageFile
  \/ SelectBadFile
  \/ ReaderLoads
  \/ ReaderFails
  \/ AnalysisSettles
  \/ ClearInitialChatPrompt
  \/ HandleSend
  \/ ChatSettles

AppSpec == Init /\ [][AppNext]_vars

----------------------------------------------------------------------------
(* The claims.                                                              *)

\* sanitizeAndParseJson has run its sanitizing steps
Sanitized == pc \in {"parse", "scan", "returned"} \/ (pc = "done" /\ via # "none")

\* sanitizeAndParseJson has returned
Returned == via # "none"

\* the fallback's loop has ended
ExtractionDone ==
  \/ pc = "scan" /\ scanEnded(saneJsonString, scanState)
  \/ via \in {"fallback", "absent"}

\* the prefix of n characters is a JSON text that ends with its value
IsJsonPrefix(s, n) == s[n] \notin JsonWS /\ JSONparse(SubSeq(s, 1, n)).ok

\* C1: for every well-formed JSON text without a fence, sanitizeAndParseJson
\* returns the value JSON.parse gives for that text.
C1_WellFormedJsonDecodesAsJsonParse ==
  (Returned /\ ~Includes(rawJson, Fence) /\ JSONparse(rawJson).ok)
    => parsedData = JSONparse(rawJson).val

\* the texts that wrap the JSON text j in one fence over the whole input:
\* no tag or the tag json, with or without a newline on either side of j (a
\* tag is kept apart from a j that starts with a word character)
fenced(j) ==
  {Fence \o tag \o a \o j \o b \o Fence :
     tag \in {t \in {<<>>, <<"j","s","o","n">>} :
                t = <<>> \/ j[1] \notin WordChar},
     a \in {<<>>, <<NL>>}, b \in {<<>>, <<NL>>}}
  \cup {Fence \o <<"j","s","o","n">> \o <<NL>> \o j \o b \o Fence :
          b \in {<<>>, <<NL>>}}

\* C2: a JSON text wrapped in a fence over the whole input decodes to the
\* same value as the text without the fence.
C2_FencedDecodesAsUnfenced ==
  \A a \in 1..Len(rawJson) : \A b \in a..Len(rawJson) :
    (/\ Returned
     /\ StartsWithAt(rawJson, 1, Fence)
     /\ rawJson \in fenced(SubSeq(rawJson, a, b))
     /\ JSONparse(SubSeq(rawJson, a, b)).ok)
      => parsedData = sanitizeAndParseJson(SubSeq(rawJson, a, b)).val

\* C3: sanitizing the sanitized text again leaves it unchanged.
C3_SanitizeIdempotent ==
  Sanitized => sanitize(saneJsonString) = saneJsonString

\* C4: the sanitized text handed to the strict parse holds no fence.
C4_NoFenceInSanitizedText ==
  Sanitized => ~Includes(saneJsonString, Fence)

\* C5: sanitizeAndParseJson never throws; it returns a decoded value or null;
\* a text that is empty or white space, or that sanitizes to the empty
\* string, gives null by the return of line 62, the loop never entered.
C5_NeverThrowsAndEmptyIsAbsent ==
  /\ via # "threw"
  /\ Returned => via \in {"strict", "empty", "fallback", "absent"}
  /\ via \in {"empty", "absent"} => parsedData = VNull
  /\ via = "strict" =>
       JSONparse(saneJsonString).ok /\ parsedData = JSONparse(saneJsonString).val
  /\ via = "fallback" =>
       /\ JSONparse(potentialJsonOf(saneJsonString, endIndex)).ok
       /\ parsedData = JSONparse(potentialJsonOf(saneJsonString, endIndex)).val
  /\ (Sanitized /\ trim(rawJson) = <<>>) => saneJsonString = <<>>
  /\ (Sanitized /\ saneJsonString = <<>>) => pc # "scan" /\ scanState = scanStart
  /\ (Returned /\ saneJsonString = <<>>) => via = "empty"

\* a text of white space only has been answered
C5_Witness ==
  /\ pc = "done"
  /\ via = "empty"
  /\ Len(rawJson) > 0
  /\ trim(rawJson) = <<>>
  /\ parsedData = VNull

\* C6: a complete JSON object or array followed by prose on which the strict
\* parse of the sanitized text fails decodes to that object or array.
C6_TrailingProseRecovered ==
  \A n \in 1..Len(rawJson) :
    (/\ Returned
     /\ via # "strict"
     /\ rawJson[1] \in {"{", "["}
     /\ n < Len(rawJson)
     /\ IsJsonPrefix(rawJson, n)
     /\ \E k \in (n + 1)..Len(rawJson) : rawJson[k] \in Alpha)
      => parsedData = JSONparse(SubSeq(rawJson, 1, n)).val

\* C7: a JSON object that lacks only its closing brace gives null.
C7_TruncatedObjectAbsent ==
  (/\ Returned
   /\ Len(rawJson) > 0
   /\ rawJson[1] = "{"
   /\ JSONparse(rawJson \o <<"}">>).ok)
    => parsedData = VNull

\* C8 as stated: when the strict parse has failed and the sanitized text
\* starts with a JSON value, a scalar included (here one followed by white
\* space), the extractor returns that value's text.
C8_AnyValuePrefixFound ==
  \A n \in 1..Len(saneJsonString) :
    (/\ ExtractionDone
     /\ IsJsonPrefix(saneJsonString, n)
     /\ n < Len(saneJsonString)
     /\ saneJsonString[n + 1] \in JsonWS)
      => \E m \in n..Len(saneJsonString) :
           IsJsonPrefix(saneJsonString, m) /\ endIndex = m

\* C8 as amended: when the strict parse has failed and the sanitized text
\* starts with a JSON object or array, the extractor returns exactly that
\* object's or array's text.
C8_ObjectOrArrayPrefixFoundExactly ==
  \A n \in 1..Len(saneJsonString) :
    (/\ ExtractionDone
     /\ saneJsonString[1] \in {"{", "["}
     /\ IsJsonPrefix(saneJsonString, n))
      => /\ endIndex = n
         /\ potentialJsonOf(saneJsonString, endIndex) = SubSeq(saneJsonString, 1, n)

\* the loop has cut a JSON array or object off the text that follows it
C8_Witness ==
  /\ pc = "scan"
  /\ endIndex # -1
  /\ endIndex < Len(saneJsonString)
  /\ IsJsonPrefix(saneJsonString, endIndex)

\* C9: analyzeImageAndSuggestProducts never rejects; after a failed call or
\* a text that gives null it resolves to two empty product arrays and an
\* analysis text that names the failure.
C9_FailureGivesEmptyResult ==
  /\ settled # "rejected"
  /\ pc = "done" <=> settled = "resolved"
  /\ (pc = "done" /\ (failure = "transport" \/ (Returned /\ parsedData = VNull)))
       => /\ result.similarProducts = VArr(<<>>)
          /\ result.complementaryProducts = VArr(<<>>)
          /\ result.analysis.t = "str"
          /\ \E m \in {parseFailureMessage, unknownErrorMessage}
                        \cup {e.message : e \in TransportErrors} :
               result.analysis.s = errorAnalysis(m)
          /\ Len(result.analysis.s) > 0

\* a failed call has been answered
C9_Witness ==
  /\ pc = "done"
  /\ failure = "transport"
  /\ settled = "resolved"

\* C10: whatever the model answered, both product fields of the result are
\* arrays.
C10_ProductFieldsAreArrays ==
  pc = "done" =>
    /\ result.similarProducts.t = "arr"
    /\ result.complementaryProducts.t = "arr"


\* the character the loop is about to read, at the code's index i
scanChar == saneJsonString[i + 1]

\* one iteration of the loop is being taken
Scanning == pc = "scan" /\ ~scanEnded(saneJsonString, scanState)

\* C14: in the fallback's loop the depth changes only on the opening or the
\* closing character that matches the text's first character, and only
\* outside a string literal; a brace or bracket inside a string and an
\* escaped character change neither the depth nor the in-string flag; the
\* region ends at the first closing character that brings the depth to zero,
\* and the depth is never negative.
C14_DepthChangesOnlyOutsideStrings ==
  /\ [](openCount >= 0)
  /\ [][Scanning =>
         /\ openCount' # openCount =>
              /\ ~escapeNextChar /\ ~inString /\ ~inString'
              /\ \/ scanChar = expectedOpen(saneJsonString) /\ openCount' = openCount + 1
                 \/ scanChar = expectedClose(saneJsonString) /\ openCount' = openCount - 1
         /\ (inString /\ scanChar # QUOTE) =>
              openCount' = openCount /\ inString' /\ endIndex' = -1
         /\ escapeNextChar =>
              openCount' = openCount /\ inString' = inString /\ endIndex' = -1
         /\ inString' # inString => scanChar = QUOTE /\ ~escapeNextChar
         /\ endIndex' # -1 =>
              /\ scanChar = expectedClose(saneJsonString)
              /\ ~inString /\ ~escapeNextChar
              /\ openCount = 1 /\ openCount' = 0
              /\ endIndex' = i + 1
         /\ endIndex' = -1 /\ i > 0 => openCount' > 0]_vars

\* the fallback returned a region that holds, inside a string, an escaped
\* quote followed by the closing character
C14_Witness ==
  /\ via = "fallback"
  /\ \E k \in 1..(endIndex - 3) :
       /\ saneJsonString[k] = BACKSLASH
       /\ saneJsonString[k + 1] = QUOTE
       /\ saneJsonString[k + 2] = expectedClose(saneJsonString)


\* C11: sendMessageInChat never throws; every call makes one chat.sendMessage
\* exchange and resolves to the reply text as it came, or, when the exchange
\* failed, to an apology that holds the error message.
C11_ChatReplyUnchangedOrApology ==
  /\ chatExchanges = sends
  /\ lastReply.settled \in {"pending", "resolved"}
  /\ lastReply.settled = "resolved" =>
       IF lastExchange.ok
       THEN lastReply.text = lastExchange.text
       ELSE /\ lastReply.text = apology(chatErrorMessage(lastExchange))
            /\ Len(lastReply.text) > Len(lastExchange.message)
            /\ lastExchange.isError =>
                 Includes(lastReply.text, lastExchange.message) /\ SubSeq(lastReply.text, 2, Len(lastReply.text)) = lastExchange.message

\* a failed exchange has been answered with the apology
C11_Witness ==
  /\ lastReply.settled = "resolved"
  /\ ~lastExchange.ok
  /\ lastExchange.isError
  /\ state.chatMessages # <<>>
  /\ state.chatMessages[Len(state.chatMessages)].text = lastReply.text

\* C12: a chat message reaches the model only after an analysis has resolved
\* and created a chat session; while currentChat is null nothing has been
\* sent and the chat panel is not offered.
C12_ChatOnlyAfterAnalysis ==
  /\ state.currentChat = 0 =>
       /\ ~chatOffered(state)
       /\ sends = 0 /\ chatExchanges = 0 /\ chatCalls = {}
       /\ state.loadingState # "chatting"
       /\ \A j \in 1..Len(state.chatMessages) :
            state.chatMessages[j].sender # "user"
  /\ \A call \in chatCalls :
       /\ call.chat \in Images
       /\ returnedFor[call.chat] # noResponse
       /\ ~analysisThrows(returnedFor[call.chat])

\* a message is on its way to the model
C12_Witness ==
  /\ chatCalls # {}
  /\ state.currentChat # 0
  /\ state.loadingState = "chatting"

\* C13: the analysis text and the two product lists shown are the cleared
\* values or the three fields of one analysis result, and sending a chat
\* message or showing a reply leaves them as they are.
C13_SuggestionReplacedWholesale ==
  /\ [](\/ shownSuggestion = clearedSuggestion
        \/ \E image \in Images :
             /\ returnedFor[image] # noResponse
             /\ shownSuggestion = suggestionOf(returnedFor[image]))
  /\ [][(sends' # sends \/ chatCalls' # chatCalls) =>
          shownSuggestion' = shownSuggestion]_vars

\* a result with a product is shown and a chat reply has arrived
C13_Witness ==
  /\ state.similarProducts.kids # <<>>
  /\ sends > 0
  /\ chatCalls = {}
  /\ Len(state.chatMessages) >= 3

\* C15: once no analysis is in flight, what is shown is the result returned
\* for the image uploaded last.
C15_LatestUploadShown ==
  (/\ analysisCalls = {}
   /\ state.uploadedImage # 0
   /\ returnedFor[state.uploadedImage] # noResponse
   /\ ~analysisThrows(returnedFor[state.uploadedImage]))
    => shownSuggestion = suggestionOf(returnedFor[state.uploadedImage])

\* C16: while an analysis is in flight loadingState is analyzing_image, and
\* while a chat message is in flight it is chatting.
C16_LoadingStateFollowsCalls ==
  /\ analysisCalls # {} => state.loadingState = "analyzing_image"
  /\ chatCalls # {} => state.loadingState = "chatting"

\* C17: every message in the conversation belongs to the chat session of the
\* image uploaded last.
C17_NoMessageOfEarlierSession ==
  \A j \in 1..Len(state.chatMessages) :
    state.chatMessages[j].chat = state.uploadedImage

\* the analysis texts of the failure results
FailureAnalyses ==
  {errorAnalysis(m) :
     m \in {parseFailureMessage, typeErrorMessage, unknownErrorMessage}
             \cup {error.message : error \in TransportErrors}}

\* C18: no message is the success greeting wrapped around the analysis text
\* of a failure result.
C18_FailureNotGreeted ==
  \A j \in 1..Len(state.chatMessages) :
    \A analysis \in FailureAnalyses :
      state.chatMessages[j].text # greeting(analysis)

=========================================================================
